---- MODULE Spec2Model ----
(***************************************************************************)
(* A model of lib/verify.js of browserid-local-verify: the verification of *)
(* a BrowserID assertion bundle (certificate chain, audience, attribute    *)
(* certificates, issuer trust) as a callback-driven state machine.         *)
(*                                                                         *)
(* The source file holds two revisions of the module one after the other:  *)
(* revision 1 (lines 1-275, attribute certificates under 'attr-certs',     *)
(* bound by the header field cb) and revision 2 (lines 277-568, attribute  *)
(* certificates under 'jac', bound by the payload field cdi).  Definitions *)
(* that differ between the two take the revision as their first parameter. *)
(*                                                                         *)
(* Encoding of JavaScript values.  An object is a function whose DOMAIN is *)
(* the set of its own keys.  A string is a TLA+ string, except an e-mail   *)
(* address or a domain, which is a tuple of one-character strings so that  *)
(* the regular expression of extractDomainFromEmail can be computed.  The  *)
(* falsy scalars are the tokens of Falsy.  null/undefined in a slot that   *)
(* otherwise holds an object is the record null.                           *)
(***************************************************************************)
EXTENDS Integers, Sequences, FiniteSets, TLC

VARIABLES
  rev,               \* which revision of verify.js runs: 1 or 2
  argc,              \* arguments.length of the call of verify
  args,              \* the args object handed to verify
  bundle,            \* what the assertion string unpacks to
  pc,                \* where the run is
  principalDomain,   \* verify's local principalDomain
  idpClaims,         \* verify's local idpClaims
  userClaims,        \* verify's local userClaims
  ultimateIssuer,    \* verify's local ultimateIssuer
  ultimatePublicKey, \* verify's local ultimatePublicKey
  chainPos,          \* number of chain links whose key verifyBundle has been given
  lookupPending,     \* an issuer lookup of the chain is in flight
  assertionParams,   \* what verifyBundle reported about the assertion
  obj,               \* the result object under construction
  branch,            \* per attribute certificate: "pending" while its signature
                     \* check is in flight, then whether its callback got claims
  trustPending,      \* number of trust-resolution lookups in flight
  calls,             \* the invocations of the caller's callback, in order
  nVerifyIssuer,     \* number of invocations of verifyIssuer
  nTrustLookups,     \* number of trust-resolution lookups started
  trustLog,          \* the answers of those lookups, each with the call it led to
  xClaims,           \* input of a stand-alone extractExtraClaims call
  xResult,           \* its result
  xDone,             \* whether it has run
  earlier,           \* the finished earlier calls of verify with these arguments
  completed          \* the attribute certificates whose signature check has
                     \* answered, in the order of the answers

vars == <<rev, argc, args, bundle, pc, principalDomain, idpClaims, userClaims,
          ultimateIssuer, ultimatePublicKey, chainPos, lookupPending,
          assertionParams, obj, branch, trustPending, calls, nVerifyIssuer,
          nTrustLookups, trustLog, xClaims, xResult, xDone, earlier, completed>>

runVars == <<rev, argc, args, bundle, pc, principalDomain, idpClaims, userClaims,
             ultimateIssuer, ultimatePublicKey, chainPos, lookupPending,
             assertionParams, obj, branch, trustPending, calls, nVerifyIssuer,
             nTrustLookups, trustLog>>

(***************************************************************************)
(* Bounds of the model.                                                    *)
(***************************************************************************)
\* longest certificate chain of a bundle
MaxChain == 2
\* largest number of attribute certificates embedded in an assertion
MaxCerts == 2

(***************************************************************************)
(* JavaScript values.                                                      *)
(***************************************************************************)
\* the value of a missing property, in a slot that holds a scalar
undefined == "#undefined"
\* the number 0 and the boolean false, as scalars
jsZero == "#0"
jsFalse == "#false"
\* the scalars that are false in a condition; "" is the empty string
Falsy == {undefined, jsZero, jsFalse, ""}
\* null or undefined, in a slot that holds an object
null == [null |-> TRUE]
\* the object {}
emptyObject == [k \in {} |-> ""]

Truthy(v) == v \notin Falsy

\* o[k], undefined when o has no own property k (k holding a scalar)
Get(o, k) == IF k \in DOMAIN o THEN o[k] ELSE undefined

\* o with o[k] = v
Put(o, k, v) == [x \in DOMAIN o \cup {k} |-> IF x = k THEN v ELSE o[x]]

\* _.extend(o, c): the properties of c copied over those of o
Extend(o, c) == [x \in DOMAIN o \cup DOMAIN c |-> IF x \in DOMAIN c THEN c[x] ELSE o[x]]

\* o without its property k
Delete(o, k) == [x \in DOMAIN o \ {k} |-> o[x]]

(***************************************************************************)
(* extractExtraClaims.                                                     *)
(***************************************************************************)
\* revision 1: lines 22-33; revision 2: lines 298-312
reservedClaimNames(r) ==
  {"iss", "sub", "aud", "exp", "nbf", "iat", "jti", "public-key", "principal"}
    \cup (IF r = 1 THEN {"attr-certs"}
                   ELSE {"jac", "cdi", "scope", "scope_description"})

\* typeof claims.principal === 'object' : a principal is recorded with its type
principalIsObject(claims) ==
  "principal" \in DOMAIN claims /\ claims["principal"].type = "object"

\* the keys of claims.principal that the second forEach overlays, given the
\* extra claims copied from the top level: not reserved, not 'email', and
\* extraClaims[key] falsy (absent, or present with a falsy value)
overlaidKeys(r, claims, top) ==
  IF principalIsObject(claims)
  THEN {k \in DOMAIN claims["principal"].fields :
          /\ k \notin reservedClaimNames(r)
          /\ k # "email"
          /\ ~ Truthy(Get(top, k))}
  ELSE {}

extractExtraClaims(r, claims) ==
  IF claims = null THEN null
  ELSE LET topKeys == {k \in DOMAIN claims : k \notin reservedClaimNames(r)}
           top == [k \in topKeys |-> claims[k]]
           over == overlaidKeys(r, claims, top)
           extraClaims == [k \in topKeys \cup over |->
                             IF k \in over THEN claims["principal"].fields[k]
                                           ELSE top[k]]
       IN IF DOMAIN extraClaims # {} THEN extraClaims ELSE null

(***************************************************************************)
(* Digest binding (revision 2) and the certificate hash (revision 1).      *)
(***************************************************************************)
\* sjcl.codec.base64url.fromBits(sjcl.hash.<alg>.hash(message)): a hash is
\* modelled symbolically, as the pair of the algorithm and the message
sha256(message) == <<"sha256", message>>
sha512(message) == <<"sha512", message>>

\* the names of DIGEST_ALGS
DIGEST_ALG_NAMES == {"S256", "S512"}

DIGEST_ALGS(alg, message) ==
  IF alg = "S256" THEN sha256(message) ELSE sha512(message)

\* certDigestInfo is null, or an object whose alg and dig are strings
verifyDigest(data, certDigestInfo) ==
  IF certDigestInfo = null THEN FALSE
  ELSE /\ certDigestInfo.alg \in DIGEST_ALG_NAMES
       /\ DIGEST_ALGS(certDigestInfo.alg, data) = certDigestInfo.dig

\* payload.cdi, null when the payload has none
cdiOf(payload) == IF "cdi" \in DOMAIN payload THEN payload["cdi"] ELSE null

(***************************************************************************)
(* extractDomainFromEmail.  An e-mail is a tuple of characters.            *)
(***************************************************************************)
\* a missing e-mail (undefined), in a slot that holds an e-mail
noEmail == <<"#undefined">>
\* the principal domain before it is derived (null)
noDomain == <<"#null">>
\* what a call that throws evaluates to
threw == <<"#TypeError">>
\* the public key before a lookup has answered (undefined), in a slot that
\* holds a key
noKey == <<"#undefined", "key">>

toLowerCase(c) ==
  CASE c = "I" -> "i"
    [] c = "D" -> "d"
    [] c = "P" -> "p"
    [] c = "U" -> "u"
    [] OTHER -> c

\* the index of the first "@" of email, 0 when it has none
firstAt(email) ==
  IF \E i \in 1..Len(email) : email[i] = "@"
  THEN CHOOSE i \in 1..Len(email) :
         email[i] = "@" /\ \A j \in 1..(i - 1) : email[j] # "@"
  ELSE 0

\* (/\@(.*)$/).exec(email)[1].toLowerCase(): exec gives null, and the index
\* throws, when email (undefined included) holds no "@"
extractDomainFromEmail(email) ==
  IF email = noEmail \/ firstAt(email) = 0 THEN threw
  ELSE [i \in 1..(Len(email) - firstAt(email)) |->
          toLowerCase(email[firstAt(email) + i])]

\* whether an e-mail or a domain counts as true in a condition
TruthyText(t) == t \notin {noEmail, noDomain, <<>>}

(***************************************************************************)
(* The inputs of a run.                                                    *)
(***************************************************************************)
IdP == "idp.example"
Other == "other.example"
Root == "root.example"
Issuers == {IdP, Other}
Audience == "https://rp.example"
OtherAudience == "https://evil.example"

\* the raw bytes of a certificate
rawCert(iss, kind) == <<"cert", iss, kind>>

\* the payloads of a leaf certificate issued by iss:
\*   principal: principal.email u@IdP (domain in mixed case), one more field
\*   sub:       no principal, sub u@idp, one extra top-level claim
\*   anonymous: neither principal nor sub
\*   nodomain:  principal.email "u@", whose domain is the empty string
LeafKinds == {"principal", "sub", "anonymous", "nodomain"}

leafPayload(iss, kind) ==
  CASE kind = "principal" ->
         [k \in {"iss", "principal"} |->
            IF k = "iss" THEN iss
            ELSE [type |-> "object",
                  fields |-> [f \in {"email", "uid"} |->
                                IF f = "email" THEN <<"u", "@", "I", "d", "P">>
                                               ELSE "7"]]]
    [] kind = "sub" ->
         [k \in {"iss", "sub", "locale"} |->
            IF k = "iss" THEN iss
            ELSE IF k = "sub" THEN <<"u", "@", "i", "d", "p">> ELSE "en"]
    [] kind = "nodomain" ->
         [k \in {"iss", "principal"} |->
            IF k = "iss" THEN iss
            ELSE [type |-> "object",
                  fields |-> [f \in {"email"} |-> <<"u", "@">>]]]
    [] OTHER -> [k \in {"iss"} |-> iss]

cert(iss, kind) ==
  [iss |-> iss, kind |-> kind, raw |-> rawCert(iss, kind),
   payload |-> leafPayload(iss, kind)]

\* the chains: every certificate but the last is issued by Root
Chains ==
  {[i \in 1..n |-> IF i < n THEN cert(Root, "anonymous") ELSE cert(iss, kind)] :
     n \in 1..MaxChain, iss \in Issuers, kind \in LeafKinds}

\* an attribute certificate bound to the certificate with bytes raw
attrToken(name, scope, raw, iss, claims) ==
  [raw |-> name,
   header |-> [cb |-> sha256(raw)],
   payload |->
     Extend(Extend(Extend([k \in {"cdi"} |-> [alg |-> "S256", dig |-> sha256(raw)]],
                          IF scope = undefined THEN emptyObject
                          ELSE [k \in {"scope"} |-> scope]),
                   IF iss = undefined THEN emptyObject
                   ELSE [k \in {"iss"} |-> iss]),
            claims)]

\* the attribute certificates that may come with leaf certificate leaf:
\*   A, B: same scope, bound to leaf, B with one claim more than A;
\*   C: bound to another certificate;
\*   D: issued by somebody else than the issuer of leaf;  E: without scope
AttrTokens(leaf) ==
  {attrToken("A", "s1", leaf.raw, undefined, [k \in {"role"} |-> "admin"]),
   attrToken("B", "s1", leaf.raw, leaf.iss,
             [k \in {"role", "level"} |-> IF k = "role" THEN "user" ELSE "2"]),
   attrToken("C", "s2", rawCert(leaf.iss, "stolen"), undefined,
             [k \in {"vip"} |-> "yes"]),
   attrToken("D", "s3", leaf.raw, "mallory.example", [k \in {"age"} |-> "18"]),
   attrToken("E", undefined, leaf.raw, undefined, [k \in {"group"} |-> "staff"])}

\* the arrays of at most MaxCerts distinct attribute certificates
AttrArrays(leaf) ==
  {s \in UNION {[1..n -> AttrTokens(leaf)] : n \in 0..MaxCerts} :
     \A i, j \in DOMAIN s : i # j => s[i] # s[j]}

\* the key of the assertion payload that carries the attribute certificates
attrCertsKey(r) == IF r = 1 THEN "attr-certs" ELSE "jac"

\* the payload of the assertion: audience, expiry and, with hasArray, the array
assertionPayload(r, aud, hasArray, arr) ==
  Extend([k \in {"aud", "exp"} |-> IF k = "aud" THEN aud
                                   ELSE IF aud = Audience THEN "t100" ELSE "t200"],
         IF hasArray THEN [k \in {attrCertsKey(r)} |-> arr] ELSE emptyObject)

\* the leaf certificates whose assertions are tried with every array of
\* attribute certificates; the others come with no array or a single certificate
FullLeafKinds == {"principal", "anonymous"}

wellFormed(r, c, aud, has, arr) ==
  [malformed |-> "none", certs |-> c,
   signedAssertion |-> [payload |-> assertionPayload(r, aud, has, arr)]]

\* the well-formed bundles: the attribute certificates are those that may
\* come with the leaf certificate of the chain
Bundles(r) ==
  UNION {{wellFormed(r, c, aud, FALSE, <<>>) : aud \in {Audience, OtherAudience}}
         \cup
         {wellFormed(r, c, aud, TRUE, <<t>>) :
            aud \in {Audience, OtherAudience}, t \in AttrTokens(c[Len(c)])}
         \cup
         {wellFormed(r, c, Audience, TRUE, arr) :
            arr \in IF Len(c) = 1 /\ c[1].kind \in FullLeafKinds
                    THEN AttrArrays(c[1]) ELSE {}} :
         c \in Chains}

\* the bundles on which a step of the extraction block of verify throws:
\* unbundle, extractComponents of the leaf certificate, or extractComponents
\* of the signed assertion
MalformedBundles(r) ==
  {[malformed |-> m, certs |-> <<cert(iss, "principal")>>,
    signedAssertion |-> [payload |-> assertionPayload(r, Audience, FALSE, <<>>)]] :
     m \in {"unbundle", "leafCert", "signedAssertion"}, iss \in Issuers}

\* the args objects of a well-formed call; flag is flattenAttrCerts in
\* revision 1 and aggregateAttrCertClaims in revision 2
modeFlag(r) == IF r = 1 THEN "flattenAttrCerts" ELSE "aggregateAttrCertClaims"

ArgsSet(r) ==
  {Extend(Extend(Extend([k \in {"assertion", "audience"} |->
                           IF k = "assertion" THEN "assertion" ELSE Audience],
                        IF trusted THEN [k \in {"trustedIssuers"} |-> <<IdP>>]
                                   ELSE emptyObject),
                 IF fb THEN [k \in {"fallback"} |-> IdP] ELSE emptyObject),
          IF flag THEN [k \in {modeFlag(r)} |-> TRUE] ELSE emptyObject) :
     trusted \in BOOLEAN, fb \in BOOLEAN, flag \in BOOLEAN}

\* the args objects that lack a required argument, or hold an empty one
BadArgsSet ==
  {[k \in ks |-> IF k = "assertion" THEN "assertion" ELSE Audience] :
     ks \in {{"assertion"}, {"audience"}, {}}}
    \cup {[k \in {"assertion", "audience"} |-> IF k = "assertion" THEN "" ELSE Audience],
          [k \in {"assertion", "audience"} |-> IF k = "assertion" THEN "assertion" ELSE ""]}

(***************************************************************************)
(* Errors.  An error is a tuple of the fragments of its message; no error  *)
(* (null) is the empty tuple.                                              *)
(***************************************************************************)
noError == <<>>
errLookup == <<"lookup failed">>
errSignature == <<"signature verification failed">>
errChaining == <<"certificate chaining is not yet allowed">>
errAudience(e) == <<"audience mismatch: ", e>>
errScope == <<"multiple attribute certificates with same scope">>
errUntrusted(expected, got) ==
  <<"untrusted issuer, expected '", expected, "', got '", got, "'">>
errNoEmail ==
  <<"untrusted assertion, doesn't contain an email, and issuer is untrusted ">>

\* ./compare-audiences.js: undefined when the audiences match, else a diagnostic
compareAudiences(got, want) == IF got = want THEN undefined ELSE "domain mismatch"

(***************************************************************************)
(* The state a callback works on: the result object, the callback's calls, *)
(* the lookups of trust resolution, and whether the callback threw.        *)
(***************************************************************************)
frame ==
  [obj |-> obj, calls |-> calls, trustPending |-> trustPending,
   nVerifyIssuer |-> nVerifyIssuer, nTrustLookups |-> nTrustLookups,
   trustLog |-> trustLog, threw |-> FALSE]

\* cb(err, res)
callback(f, err, res) ==
  [f EXCEPT !.calls = Append(@, [err |-> err, res |-> res])]

\* args.trustedIssuers && args.trustedIssuers.indexOf(ultimateIssuer) !== -1
issuerIsTrusted(a, issuer) ==
  /\ "trustedIssuers" \in DOMAIN a
  /\ \E i \in 1..Len(a["trustedIssuers"]) : a["trustedIssuers"][i] = issuer

\* expectedIssuer with the authoritative domain of the answer ignored
expectedIssuerFallbackOnly(a, err, details) == Get(a, "fallback")

\* the expected issuer of the lookup callback of verifyIssuer
expectedIssuer(a, err, details) ==
  IF err = noError /\ Truthy(Get(details, "authoritativeDomain"))
  THEN details["authoritativeDomain"]
  ELSE Get(a, "fallback")

\* verifyIssuer with the principal domain tested before the trusted issuers
verifyIssuerDomainFirst(a, domain, issuer, f) ==
  LET f1 == [f EXCEPT !.nVerifyIssuer = @ + 1]
  IN IF TruthyText(domain)
     THEN [f1 EXCEPT !.trustPending = @ + 1, !.nTrustLookups = @ + 1]
     ELSE IF issuerIsTrusted(a, issuer) THEN callback(f1, noError, f1.obj)
          ELSE callback(f1, errNoEmail, null)

\* verifyIssuer with principalDomain !== undefined for the test of line 399:
\* null and the empty string pass it
verifyIssuerLooseDomainTest(a, domain, issuer, f) ==
  LET f1 == [f EXCEPT !.nVerifyIssuer = @ + 1]
  IN IF issuerIsTrusted(a, issuer) THEN callback(f1, noError, f1.obj)
     ELSE IF domain # noEmail
          THEN [f1 EXCEPT !.trustPending = @ + 1, !.nTrustLookups = @ + 1]
          ELSE callback(f1, errNoEmail, null)

\* verifyIssuer up to its lookup
verifyIssuer(a, domain, issuer, f) ==
  LET f1 == [f EXCEPT !.nVerifyIssuer = @ + 1]
  IN IF issuerIsTrusted(a, issuer) THEN callback(f1, noError, f1.obj)
     ELSE IF TruthyText(domain)
          THEN [f1 EXCEPT !.trustPending = @ + 1, !.nTrustLookups = @ + 1]
          ELSE callback(f1, errNoEmail, null)

\* the callback verifyIssuer hands to browserid.lookup
verifyIssuerLookupDone(a, issuer, f, err, details) ==
  LET f1 == [f EXCEPT !.trustPending = @ - 1,
                      !.trustLog = Append(@, [err |-> err, details |-> details,
                                              call |-> Len(f.calls) + 1])]
      expected == expectedIssuer(a, err, details)
  IN IF expected # issuer THEN callback(f1, errUntrusted(expected, issuer), null)
     ELSE callback(f1, noError, f1.obj)

(***************************************************************************)
(* Attribute certificates.                                                 *)
(***************************************************************************)
\* revision 2, lines 362-375: what verifyAttributeCert hands to cb, given the
\* payload that jwcrypto.assertion.verify reports (null when it reports an error)
verifyAttributeCert2(payload, certData, certIssuer) ==
  IF \/ payload = null
     \/ ~ Truthy(Get(payload, "scope"))
     \/ ~ verifyDigest(certData, cdiOf(payload))
     \/ (Truthy(Get(payload, "iss")) /\ payload["iss"] # certIssuer)
  THEN null
  ELSE payload

\* revision 1, lines 72-76: the condition under which verifyAttributeCert calls
\* callback(null) before it goes on to verify the signature
verifyAttributeCert1(attrCert, certHash, certIssuer) ==
  \/ attrCert.header.cb # certHash
  \/ (Truthy(Get(attrCert.payload, "iss")) /\ attrCert.payload["iss"] # certIssuer)

\* obj[k] || {}
objectAt(o, k) == IF k \in DOMAIN o THEN o[k] ELSE emptyObject

aggregateAttrCertClaims(o, scope, attrCert, claims) ==
  LET idp == Extend(objectAt(o, "idpClaims"), claims)
      names == Extend(objectAt(idp, "_claim_names"),
                      [attr \in DOMAIN claims |-> scope])
      sources == Put(objectAt(idp, "_claim_sources"), scope, [JWT |-> attrCert])
  IN Put(o, "idpClaims",
         Put(Put(idp, "_claim_names", names), "_claim_sources", sources))

\* _.each(list, function(c) { _.extend(target, c); })
RECURSIVE extendAll(_, _)
extendAll(target, list) ==
  IF list = <<>> THEN target
  ELSE extendAll(Extend(target, Head(list)), Tail(list))

flattenAttributeCertClaims(o) ==
  LET list == IF "attrCertClaims" \in DOMAIN o THEN o["attrCertClaims"] ELSE <<>>
  IN Delete(Put(o, "idpClaims", extendAll(objectAt(o, "idpClaims"), list)),
            "attrCertClaims")

\* whether the scope of an accepted certificate is taken: the collision check
\* reads obj.attributeCertClaims[scope]
scopeTaken(o, scope) == scope \in DOMAIN o["attributeCertClaims"]

\* whether the branch with this index is the one that goes on to verifyIssuer
isLastIndex(index, size) == index = size - 1

\* revision 2, lines 544-560: the callback verify hands to verifyAttributeCert;
\* index counts from 0
attrCertDone2(a, domain, issuer, f, index, size, attrCert, attributeCertClaims) ==
  LET extClaims == extractExtraClaims(2, attributeCertClaims)
      scope == attributeCertClaims["scope"]
  IN IF extClaims # null /\ scopeTaken(f.obj, scope)
     THEN callback(f, errScope, null)
     ELSE LET f1 == IF extClaims = null THEN f
                    ELSE IF "aggregateAttrCertClaims" \in DOMAIN a
                    THEN [f EXCEPT !.obj =
                            aggregateAttrCertClaims(@, scope, attrCert.raw, extClaims)]
                    ELSE [f EXCEPT !.obj =
                            Put(@, "attributeCertClaims",
                                Put(@["attributeCertClaims"], scope, extClaims))]
          IN IF isLastIndex(index, size) THEN verifyIssuer(a, domain, issuer, f1)
             ELSE f1

\* revision 1, lines 255-267
attrCertDone1(a, domain, issuer, f, index, size, attrCertClaims) ==
  LET extClaims == extractExtraClaims(1, attrCertClaims)
  IN IF extClaims # null /\ "attrCertClaims" \notin DOMAIN f.obj
     THEN [f EXCEPT !.threw = TRUE]
     ELSE LET f1 == IF extClaims = null THEN f
                    ELSE [f EXCEPT !.obj =
                            Put(@, "attrCertClaims",
                                Append(@["attrCertClaims"], extClaims))]
              f2 == IF "flattenAttrCerts" \in DOMAIN a
                    THEN [f1 EXCEPT !.obj = flattenAttributeCertClaims(@)]
                    ELSE f1
          IN IF isLastIndex(index, size) THEN verifyIssuer(a, domain, issuer, f2)
             ELSE f1

\* revision 1, lines 252-268: the synchronous part of the loop over the
\* attribute certificates from position i on: verifyAttributeCert calls
\* callback(null) at once for a certificate that fails the binding check
RECURSIVE fanOut1(_, _, _, _, _, _, _)
fanOut1(a, domain, issuer, certHash, f, list, i) ==
  IF i > Len(list) THEN f
  ELSE fanOut1(a, domain, issuer, certHash,
               IF verifyAttributeCert1(list[i], certHash, issuer)
               THEN attrCertDone1(a, domain, issuer, f, i - 1, Len(list), null)
               ELSE f,
               list, i + 1)

(***************************************************************************)
(* The run of verify.                                                      *)
(***************************************************************************)
\* verify's local leafCert (revision 2) and certHash (revision 1)
leafCert == bundle.certs[Len(bundle.certs)]
certHash == sha256(leafCert.raw)

\* the array of attribute certificates of the assertion
attrCerts == userClaims[attrCertsKey(rev)]

\* claims.principal.email, missing when there is no principal or no such field
principalEmail(claims) ==
  IF "principal" \in DOMAIN claims /\ "email" \in DOMAIN claims["principal"].fields
  THEN claims["principal"].fields["email"]
  ELSE noEmail

\* lines 462-467: the e-mail the principal domain is derived from
emailOf(claims) ==
  IF TruthyText(principalEmail(claims)) THEN principalEmail(claims)
  ELSE IF "sub" \in DOMAIN claims THEN claims["sub"] ELSE noEmail

\* lines 453-473: the principal domain the try block leaves behind
derivedDomain(b) ==
  IF b.malformed # "none" THEN noDomain
  ELSE LET d == extractDomainFromEmail(emailOf(b.certs[Len(b.certs)].payload))
       IN IF d = threw THEN noDomain ELSE d

Init ==
  /\ rev \in {1, 2}
  /\ \/ /\ argc = 3
        /\ args \in ArgsSet(rev)
        /\ bundle \in Bundles(rev)
     \/ /\ argc = 3
        /\ args \in ArgsSet(rev)
        /\ bundle \in MalformedBundles(rev)
     \/ /\ argc = 3
        /\ args \in BadArgsSet
        /\ bundle \in MalformedBundles(rev)
     \/ /\ argc = 2
        /\ args \in ArgsSet(rev)
        /\ bundle \in MalformedBundles(rev)
  /\ pc = "start"
  /\ principalDomain = noDomain
  /\ idpClaims = null
  /\ userClaims = null
  /\ ultimateIssuer = undefined
  /\ ultimatePublicKey = noKey
  /\ chainPos = 0
  /\ lookupPending = FALSE
  /\ assertionParams = null
  /\ obj = null
  /\ branch = <<>>
  /\ trustPending = 0
  /\ calls = <<>>
  /\ nVerifyIssuer = 0
  /\ nTrustLookups = 0
  /\ trustLog = <<>>
  /\ xClaims = null
  /\ xResult = null
  /\ xDone = FALSE
  /\ earlier = <<>>
  /\ completed = <<>>

inputs == <<rev, argc, args, bundle>>
extraction == <<xClaims, xResult, xDone>>

\* what a callback leaves behind
Commit(f) ==
  /\ obj' = f.obj
  /\ calls' = f.calls
  /\ trustPending' = f.trustPending
  /\ nVerifyIssuer' = f.nVerifyIssuer
  /\ nTrustLookups' = f.nTrustLookups
  /\ trustLog' = f.trustLog

\* wrongCall with the test of args.audience left out
wrongCallAudienceUnchecked(n, a) ==
  n # 3 \/ ~ Truthy(Get(a, "assertion"))

\* lines 427-435: whether verify throws on its arguments
wrongCall(n, a) ==
  n # 3 \/ ~ Truthy(Get(a, "assertion")) \/ ~ Truthy(Get(a, "audience"))

\* lines 426-478: verify up to the call of jwcrypto.cert.verifyBundle
verify ==
  /\ pc = "start"
  /\ IF wrongCall(argc, args)
     THEN /\ pc' = "thrown"
          /\ UNCHANGED <<principalDomain, idpClaims, userClaims>>
     ELSE /\ pc' = "chain"
          /\ idpClaims' = IF bundle.malformed \in {"unbundle", "leafCert"} THEN null
                          ELSE leafCert.payload
          /\ userClaims' = IF bundle.malformed # "none" THEN null
                           ELSE bundle.signedAssertion.payload
          /\ principalDomain' = derivedDomain(bundle)
  /\ UNCHANGED <<inputs, ultimateIssuer, ultimatePublicKey, chainPos,
                 lookupPending, assertionParams, obj, branch, trustPending,
                 calls, nVerifyIssuer, nTrustLookups, trustLog, extraction, earlier, completed>>

\* lines 481-492: verifyBundle asks for the key of the issuer of the next link
chainLookup ==
  /\ pc = "chain"
  /\ ~ lookupPending
  /\ chainPos < Len(bundle.certs)
  /\ ultimateIssuer' = bundle.certs[chainPos + 1].iss
  /\ lookupPending' = TRUE
  /\ UNCHANGED <<inputs, pc, principalDomain, idpClaims, userClaims,
                 ultimatePublicKey, chainPos, assertionParams, obj, branch,
                 trustPending, calls, nVerifyIssuer, nTrustLookups, trustLog, extraction, earlier, completed>>

\* chainLookupDone with the chain going on after a failed lookup: the error
\* is delivered and the lookup may be made again
chainLookupDoneRetries ==
  /\ pc = "chain"
  /\ lookupPending
  /\ lookupPending' = FALSE
  /\ \E ok \in BOOLEAN :
       IF ok
       THEN /\ ultimatePublicKey' = <<"key", ultimateIssuer>>
            /\ chainPos' = chainPos + 1
            /\ UNCHANGED <<pc, calls>>
       ELSE /\ calls' = callback(frame, errLookup, null).calls
            /\ UNCHANGED <<pc, ultimatePublicKey, chainPos>>
  /\ UNCHANGED <<inputs, principalDomain, idpClaims, userClaims, ultimateIssuer,
                 assertionParams, obj, branch, trustPending, nVerifyIssuer,
                 nTrustLookups, trustLog, extraction, earlier, completed>>

\* lines 492-498: the lookup answers; on an error next is never called
chainLookupDone ==
  /\ pc = "chain"
  /\ lookupPending
  /\ lookupPending' = FALSE
  /\ \E ok \in BOOLEAN :
       IF ok
       THEN /\ ultimatePublicKey' = <<"key", ultimateIssuer>>
            /\ chainPos' = chainPos + 1
            /\ UNCHANGED <<pc, calls>>
       ELSE /\ calls' = callback(frame, errLookup, null).calls
            /\ pc' = "stalled"
            /\ UNCHANGED <<ultimatePublicKey, chainPos>>
  /\ UNCHANGED <<inputs, principalDomain, idpClaims, userClaims, ultimateIssuer,
                 assertionParams, obj, branch, trustPending, nVerifyIssuer,
                 nTrustLookups, trustLog, extraction, earlier, completed>>

\* lines 499-502: verifyBundle reports a failure (malformed bundle, invalid
\* signature, expired certificate or assertion)
bundleFailed ==
  /\ pc = "chain"
  /\ ~ lookupPending
  /\ calls' = callback(frame, errSignature, null).calls
  /\ pc' = "rejected"
  /\ UNCHANGED <<inputs, principalDomain, idpClaims, userClaims, ultimateIssuer,
                 ultimatePublicKey, chainPos, lookupPending, assertionParams,
                 obj, branch, trustPending, nVerifyIssuer, nTrustLookups,
                 trustLog, extraction, earlier, completed>>

\* lines 515-536: the response object before the attribute certificates
baseResult(r, params, issuer, idp, user) ==
  LET o0 == [k \in {"audience", "expires", "issuer"} |->
               IF k = "audience" THEN params.audience
               ELSE IF k = "expires" THEN params.expiresAt ELSE issuer]
      o1 == IF idp # null /\ TruthyText(principalEmail(idp))
            THEN Put(o0, "email", principalEmail(idp)) ELSE o0
      o2 == IF extractExtraClaims(r, idp) # null
            THEN Put(o1, "idpClaims", extractExtraClaims(r, idp)) ELSE o1
  IN IF extractExtraClaims(r, user) # null
     THEN Put(o2, "userClaims", extractExtraClaims(r, user)) ELSE o2

\* chainTooLong with the limit off by one
chainTooLongOffByOne(certParamsArray) == Len(certParamsArray) > 2

\* whether the chain is longer than verify allows
chainTooLong(certParamsArray) == Len(certParamsArray) > 1

\* audienceRejected with the diagnostic of the matcher ignored
audienceRejectedNever(mismatch) == FALSE

\* line 511: whether the diagnostic of compareAudiences rejects the assertion
audienceRejected(mismatch) == Truthy(mismatch)

\* lines 499-565: verifyBundle reports success
bundleVerified ==
  /\ pc = "chain"
  /\ ~ lookupPending
  /\ chainPos = Len(bundle.certs)
  /\ LET params == [audience |-> bundle.signedAssertion.payload["aud"],
                    expiresAt |-> bundle.signedAssertion.payload["exp"]]
         mismatch == compareAudiences(params.audience, args["audience"])
         o == baseResult(rev, params, ultimateIssuer, idpClaims, userClaims)
         f0 == [frame EXCEPT !.obj = o]
     IN /\ assertionParams' = params
        /\ IF chainTooLong(bundle.certs)
           THEN /\ Commit(callback(frame, errChaining, null))
                /\ pc' = "rejected"
                /\ UNCHANGED branch
           ELSE IF audienceRejected(mismatch)
           THEN /\ Commit(callback(frame, errAudience(mismatch), null))
                /\ pc' = "rejected"
                /\ UNCHANGED branch
           ELSE IF userClaims = null
           THEN /\ Commit(f0)
                /\ pc' = "crashed"
                /\ UNCHANGED branch
           ELSE IF attrCertsKey(rev) \notin DOMAIN userClaims
           THEN /\ Commit(verifyIssuer(args, principalDomain, ultimateIssuer, f0))
                /\ pc' = "resolving"
                /\ UNCHANGED branch
           ELSE /\ branch' = [i \in 1..Len(attrCerts) |-> "pending"]
                /\ pc' = "resolving"
                /\ IF rev = 1
                   THEN Commit(fanOut1(args, principalDomain, ultimateIssuer, certHash,
                                       [f0 EXCEPT !.obj = Put(@, "attrCertClaims", <<>>)],
                                       attrCerts, 1))
                   ELSE Commit([f0 EXCEPT !.obj =
                                  Put(@, "attributeCertClaims", emptyObject)])
  /\ UNCHANGED <<inputs, principalDomain, idpClaims, userClaims, ultimateIssuer,
                 ultimatePublicKey, chainPos, lookupPending, extraction, earlier, completed>>

\* lines 364-374 with 544-560 (revision 2), lines 79-82 with 255-267
\* (revision 1): jwcrypto.assertion.verify answers for one attribute certificate
attrCertVerified(i) ==
  /\ pc = "resolving"
  /\ i \in DOMAIN branch
  /\ branch[i] = "pending"
  /\ \E ok \in BOOLEAN :
       LET payload == IF ok THEN attrCerts[i].payload ELSE null
           claims == IF rev = 1 THEN payload
                     ELSE verifyAttributeCert2(payload, leafCert.raw, ultimateIssuer)
           f == IF rev = 1
                THEN attrCertDone1(args, principalDomain, ultimateIssuer, frame,
                                   i - 1, Len(attrCerts), payload)
                ELSE attrCertDone2(args, principalDomain, ultimateIssuer, frame,
                                   i - 1, Len(attrCerts), attrCerts[i], claims)
       IN /\ branch' = [branch EXCEPT ![i] = IF claims = null THEN "rejected"
                                                              ELSE "accepted"]
          /\ completed' = Append(completed, i)
          /\ IF f.threw
             THEN /\ pc' = "crashed"
                  /\ UNCHANGED <<obj, calls, trustPending, nVerifyIssuer,
                                 nTrustLookups, trustLog>>
             ELSE /\ Commit(f)
                  /\ UNCHANGED pc
  /\ UNCHANGED <<inputs, principalDomain, idpClaims, userClaims, ultimateIssuer,
                 ultimatePublicKey, chainPos, lookupPending, assertionParams,
                 extraction, earlier>>

\* the answers of the lookup of trust resolution: an error, or details with
\* or without an authoritativeDomain
TrustAnswers ==
  {[err |-> errLookup, details |-> emptyObject]}
    \cup {[err |-> noError, details |-> [k \in {"publicKey"} |-> "key"]]}
    \cup {[err |-> noError,
           details |-> [k \in {"publicKey", "authoritativeDomain"} |->
                          IF k = "publicKey" THEN "key" ELSE d]] : d \in Issuers}

\* lines 406-417: the lookup of trust resolution answers
trustLookupDone ==
  /\ pc = "resolving"
  /\ trustPending > 0
  /\ \E r \in TrustAnswers :
       Commit(verifyIssuerLookupDone(args, ultimateIssuer, frame, r.err, r.details))
  /\ UNCHANGED <<inputs, pc, principalDomain, idpClaims, userClaims,
                 ultimateIssuer, ultimatePublicKey, chainPos, lookupPending,
                 assertionParams, branch, extraction, earlier, completed>>

Next ==
  \/ verify
  \/ chainLookup
  \/ chainLookupDone
  \/ bundleFailed
  \/ bundleVerified
  \/ \E i \in 1..MaxCerts : attrCertVerified(i)
  \/ trustLookupDone

Spec == Init /\ [][Next]_vars

\* every collaborator answers: a lookup or a signature check that is in
\* flight calls back, and a synchronous step that can run does run
SpecLive == Init /\ [][Next]_vars /\ WF_vars(Next)

(***************************************************************************)
(* verify called a second time with the same arguments.  Every variable of *)
(* a run is a local of the call of verify (lines 437-476, 516), and the    *)
(* module keeps no state of its own but the constants reservedClaimNames   *)
(* and DIGEST_ALGS: the second call starts from the state of the first.    *)
(***************************************************************************)
\* the answers of the trust-resolution lookups of a run, in order
answersOf(log) == [k \in DOMAIN log |-> [err |-> log[k].err, details |-> log[k].details]]

\* what is kept of a finished call: what the collaborators answered (per
\* attribute certificate, and per trust-resolution lookup) and what the
\* caller's callback received
finished ==
  [branch |-> branch, answers |-> answersOf(trustLog), calls |-> calls,
   completed |-> completed]

\* line 426, called again once the first call has nothing in flight any more
verifyAgain ==
  /\ pc = "resolving"
  /\ \A i \in DOMAIN branch : branch[i] # "pending"
  /\ trustPending = 0
  /\ earlier = <<>>
  /\ earlier' = <<finished>>
  /\ completed' = <<>>
  /\ pc' = "start"
  /\ principalDomain' = noDomain
  /\ idpClaims' = null
  /\ userClaims' = null
  /\ ultimateIssuer' = undefined
  /\ ultimatePublicKey' = noKey
  /\ chainPos' = 0
  /\ lookupPending' = FALSE
  /\ assertionParams' = null
  /\ obj' = null
  /\ branch' = <<>>
  /\ trustPending' = 0
  /\ calls' = <<>>
  /\ nVerifyIssuer' = 0
  /\ nTrustLookups' = 0
  /\ trustLog' = <<>>
  /\ UNCHANGED <<inputs, xClaims, xResult, xDone>>

NextTwice == Next \/ verifyAgain

\* the calls of revision 2 (lines 426-566)
InitTwice == Init /\ rev = 2

SpecTwice == InitTwice /\ [][NextTwice]_vars

\* args with the option aggregateAttrCertClaims switched
otherMode(a) ==
  IF "aggregateAttrCertClaims" \in DOMAIN a
  THEN Delete(a, "aggregateAttrCertClaims")
  ELSE Extend(a, [k \in {"aggregateAttrCertClaims"} |-> TRUE])

\* line 426, called again on the same assertion with the other setting of
\* args.aggregateAttrCertClaims (line 550)
verifyInOtherMode ==
  /\ pc = "resolving"
  /\ \A i \in DOMAIN branch : branch[i] # "pending"
  /\ trustPending = 0
  /\ earlier = <<>>
  /\ earlier' = <<finished>>
  /\ completed' = <<>>
  /\ args' = otherMode(args)
  /\ pc' = "start"
  /\ principalDomain' = noDomain
  /\ idpClaims' = null
  /\ userClaims' = null
  /\ ultimateIssuer' = undefined
  /\ ultimatePublicKey' = noKey
  /\ chainPos' = 0
  /\ lookupPending' = FALSE
  /\ assertionParams' = null
  /\ obj' = null
  /\ branch' = <<>>
  /\ trustPending' = 0
  /\ calls' = <<>>
  /\ nVerifyIssuer' = 0
  /\ nTrustLookups' = 0
  /\ trustLog' = <<>>
  /\ UNCHANGED <<rev, argc, bundle, xClaims, xResult, xDone>>

NextModes == Next \/ verifyInOtherMode

SpecModes == InitTwice /\ [][NextModes]_vars

(***************************************************************************)
(* extractExtraClaims on its own: the input is drawn, the call applied.    *)
(***************************************************************************)
\* the claim sets tried: top-level claims iss (reserved), email and nick,
\* each absent, falsy or a string; principal absent, a string, or an object
ExtractTopLevels ==
  UNION {[ks -> {jsZero, jsFalse, "", "top"}] : ks \in SUBSET {"iss", "email", "nick"}}

ExtractPrincipals ==
  {[type |-> "string", fields |-> emptyObject]}
    \cup {[type |-> "object", fields |-> [k \in ks |-> "inner"]] :
            ks \in SUBSET {"email", "nick", "sub", "uid"}}

ExtractInputs ==
  ExtractTopLevels
    \cup {Put(t, "principal", p) : t \in ExtractTopLevels, p \in ExtractPrincipals}

InitExtract ==
  /\ rev \in {1, 2}
  /\ argc = 3
  /\ args = emptyObject
  /\ bundle = null
  /\ pc = "idle"
  /\ principalDomain = noDomain
  /\ idpClaims = null
  /\ userClaims = null
  /\ ultimateIssuer = undefined
  /\ ultimatePublicKey = noKey
  /\ chainPos = 0
  /\ lookupPending = FALSE
  /\ assertionParams = null
  /\ obj = null
  /\ branch = <<>>
  /\ trustPending = 0
  /\ calls = <<>>
  /\ nVerifyIssuer = 0
  /\ nTrustLookups = 0
  /\ trustLog = <<>>
  /\ xClaims \in ExtractInputs
  /\ xResult = null
  /\ xDone = FALSE
  /\ earlier = <<>>
  /\ completed = <<>>

\* a call of extractExtraClaims
extract ==
  /\ pc = "idle"
  /\ ~ xDone
  /\ xResult' = extractExtraClaims(rev, xClaims)
  /\ xDone' = TRUE
  /\ UNCHANGED <<runVars, xClaims, earlier, completed>>

NextExtract == extract

SpecExtract == InitExtract /\ [][NextExtract]_vars

(***************************************************************************)
(* The claims.                                                             *)
(***************************************************************************)
\* the callback's invocations that delivered a result, and those that
\* delivered an error
ResultCalls == {i \in DOMAIN calls : calls[i].err = noError}
ErrorCalls == DOMAIN calls \ ResultCalls

\* every attribute-certificate branch has invoked its completion callback
AllBranchesDone == \A i \in DOMAIN branch : branch[i] # "pending"

\* the chain and audience checks passed and nothing is in flight any more
Quiescent == pc = "resolving" /\ AllBranchesDone /\ trustPending = 0

\* the assertion carries an array of attribute certificates
CarriesArray == userClaims # null /\ attrCertsKey(rev) \in DOMAIN userClaims

\* issuer is a member of args.trustedIssuers
TrustedByCaller(issuer) ==
  /\ "trustedIssuers" \in DOMAIN args
  /\ issuer \in {args["trustedIssuers"][i] : i \in DOMAIN args["trustedIssuers"]}

\* no principal domain was derived (null, or the empty string)
NoPrincipalDomain == principalDomain \in {noDomain, <<>>}

\* C1: in every run whose chain and audience checks pass and whose assertion
\* carries an array of attribute certificates, verifyIssuer and the caller's
\* callback are each invoked exactly once, and only after every branch has
\* invoked its completion callback.
C1_OnceAfterAllBranches ==
  (pc = "resolving" /\ CarriesArray) =>
    /\ nVerifyIssuer <= 1
    /\ Len(calls) <= 1
    /\ (nVerifyIssuer >= 1 \/ Len(calls) >= 1) => AllBranchesDone
    /\ Quiescent => (nVerifyIssuer = 1 /\ Len(calls) = 1)

\* C2: once the callback has been invoked with an error it is never invoked
\* again, and no result is delivered in that run (revision 2, whose lines the
\* claim cites).
C2_AllOrNothing ==
  rev = 2 => \A i \in ErrorCalls : Len(calls) = 1

\* the expected issuer of a trust-resolution lookup that answered t: the
\* authoritativeDomain of a successful lookup that has one, args.fallback otherwise
C3_Expected(t) ==
  IF t.err = noError /\ "authoritativeDomain" \in DOMAIN t.details
  THEN t.details["authoritativeDomain"]
  ELSE IF "fallback" \in DOMAIN args THEN args["fallback"] ELSE undefined

\* C3: every delivered result has an issuer that is explicitly trusted, or a
\* principal domain was derived and the issuer equals the expected issuer of
\* the lookup that led to the delivery; and a lookup whose expected issuer
\* differs from the issuer leads to the 'untrusted issuer' error naming both,
\* with no result.
C3_TrustedOrExpected ==
  /\ \A i \in ResultCalls :
       \/ TrustedByCaller(calls[i].res["issuer"])
       \/ /\ ~ NoPrincipalDomain
          /\ \E k \in DOMAIN trustLog :
               /\ trustLog[k].call = i
               /\ C3_Expected(trustLog[k]) = calls[i].res["issuer"]
  /\ \A k \in DOMAIN trustLog :
       C3_Expected(trustLog[k]) # ultimateIssuer =>
         calls[trustLog[k].call] =
           [err |-> <<"untrusted issuer, expected '", C3_Expected(trustLog[k]),
                      "', got '", ultimateIssuer, "'">>,
            res |-> null]

\* a result was delivered for an issuer the caller does not trust, after a
\* lookup that named it the authoritative domain
C3_Witness ==
  \E k \in DOMAIN trustLog :
    /\ "authoritativeDomain" \in DOMAIN trustLog[k].details
    /\ calls[trustLog[k].call].err = noError
    /\ ~ TrustedByCaller(ultimateIssuer)

\* C4: if the ultimate issuer is in args.trustedIssuers, every invocation of
\* verifyIssuer delivers the result at once and no lookup for the principal
\* domain is made, with or without a principal domain.
C4_TrustedBypassesLookup ==
  (pc = "resolving" /\ TrustedByCaller(ultimateIssuer)) =>
    /\ nTrustLookups = 0
    /\ Cardinality(ResultCalls) = nVerifyIssuer
    /\ \A i \in ErrorCalls : calls[i].err = errScope

\* an assertion with no e-mail and an explicitly trusted issuer verified
C4_Witness ==
  /\ pc = "resolving"
  /\ bundle.malformed = "none"
  /\ NoPrincipalDomain
  /\ TrustedByCaller(ultimateIssuer)
  /\ nVerifyIssuer = 1
  /\ Len(calls) = 1
  /\ calls[1].err = noError

\* C5: if no principal domain was derived and the ultimate issuer is not in
\* args.trustedIssuers, no result is delivered, no trust-resolution lookup is
\* made, and every invocation of verifyIssuer delivers the 'untrusted
\* assertion, no email' error.
C5_NoEmailUntrusted ==
  (pc # "start" /\ NoPrincipalDomain /\ ~ TrustedByCaller(ultimateIssuer)) =>
    /\ ResultCalls = {}
    /\ nTrustLookups = 0
    /\ Cardinality({i \in DOMAIN calls : calls[i].err = errNoEmail}) = nVerifyIssuer

\* trust resolution was reached without a principal domain and with an
\* untrusted issuer, trustedIssuers being omitted
C5_Witness ==
  /\ pc = "resolving"
  /\ NoPrincipalDomain
  /\ "trustedIssuers" \notin DOMAIN args
  /\ nVerifyIssuer = 1
  /\ calls = <<[err |-> errNoEmail, res |-> null]>>

\* the claims an attribute certificate makes: the entries of its payload
\* that are not protocol fields of either revision
C6_ClaimNames(t) ==
  DOMAIN t.payload \ (reservedClaimNames(1) \cup reservedClaimNames(2))

\* whether the claim k = v shows in result res, per scope, in the list of
\* revision 1, or merged into idpClaims
C6_Appears(res, k, v) ==
  \/ /\ "idpClaims" \in DOMAIN res
     /\ k \in DOMAIN res["idpClaims"]
     /\ res["idpClaims"][k] = v
  \/ /\ "attributeCertClaims" \in DOMAIN res
     /\ \E sc \in DOMAIN res["attributeCertClaims"] :
          /\ k \in DOMAIN res["attributeCertClaims"][sc]
          /\ res["attributeCertClaims"][sc][k] = v
  \/ /\ "attrCertClaims" \in DOMAIN res
     /\ \E j \in DOMAIN res["attrCertClaims"] :
          /\ k \in DOMAIN res["attrCertClaims"][j]
          /\ res["attrCertClaims"][j][k] = v

\* C6: no claim of an attribute certificate whose digest binding does not
\* match the digest of the leaf certificate appears in a delivered result,
\* in either revision.
C6_UnboundClaimsNeverAppear ==
  CarriesArray =>
    \A i \in ResultCalls, j \in DOMAIN attrCerts :
      attrCerts[j].header.cb # sha256(leafCert.raw) =>
        \A k \in C6_ClaimNames(attrCerts[j]) :
          ~ C6_Appears(calls[i].res, k, attrCerts[j].payload[k])

\* C7: when two attribute certificates of the assertion share a scope, verify
\* fails with the 'multiple attribute certificates with same scope' error, in
\* whatever order the branches complete, in per-scope and in aggregated
\* storage.  Stated for the pairs of which both certificates are valid and
\* were accepted, the case in which the claim asks least of the code.
C7_SameScopeFails ==
  (/\ rev = 2
   /\ pc = "resolving"
   /\ CarriesArray
   /\ AllBranchesDone
   /\ \E i, j \in DOMAIN attrCerts :
        /\ i # j
        /\ branch[i] = "accepted"
        /\ branch[j] = "accepted"
        /\ "scope" \in DOMAIN attrCerts[i].payload
        /\ "scope" \in DOMAIN attrCerts[j].payload
        /\ attrCerts[i].payload["scope"] = attrCerts[j].payload["scope"])
    => \E c \in DOMAIN calls : calls[c].err = errScope

\* C8 as claimed: for a chain of more than one certificate every outcome is
\* the chain-too-long error, whether or not the signatures are valid.
C8_Original ==
  Len(bundle.certs) > 1 =>
    \A i \in DOMAIN calls : calls[i] = [err |-> errChaining, res |-> null]

\* C8 as amended: for a chain of more than one certificate no result is ever
\* delivered and the callback is invoked at most once; when verifyBundle
\* reports success the error is the chain-too-long error, and when a lookup or
\* a signature check of the chain fails the error is that failure.
C8_ChainTooLong ==
  Len(bundle.certs) > 1 =>
    /\ ResultCalls = {}
    /\ Len(calls) <= 1
    /\ assertionParams # null => calls = <<[err |-> errChaining, res |-> null]>>
    /\ (assertionParams = null /\ calls # <<>>) =>
         calls[1].err \in {errLookup, errSignature}

\* a chain of two certificates passed every lookup and signature check and
\* was rejected as too long
C8_Witness ==
  /\ Len(bundle.certs) > 1
  /\ chainPos = Len(bundle.certs)
  /\ assertionParams # null
  /\ calls = <<[err |-> errChaining, res |-> null]>>

\* C9: for a well-formed bundle of one certificate with a matching audience
\* and an explicitly trusted issuer, once nothing is in flight any more the
\* callback has been invoked once, with a result whose issuer is the issuer
\* of the leaf certificate, whose expiry is that of the assertion and whose
\* audience is that of the assertion.
C9_ValidBundleSucceeds ==
  (/\ bundle.malformed = "none"
   /\ Len(bundle.certs) = 1
   /\ Quiescent
   /\ TrustedByCaller(bundle.certs[1].iss))
    => /\ Len(calls) = 1
       /\ calls[1].err = noError
       /\ calls[1].res["issuer"] = bundle.certs[1].iss
       /\ calls[1].res["expires"] = bundle.signedAssertion.payload["exp"]
       /\ calls[1].res["audience"] = bundle.signedAssertion.payload["aud"]

\* the top-level extra claims of a claim set: its non-reserved top-level keys
C10_TopLevel(r, claims) == DOMAIN claims \ reservedClaimNames(r)

\* C10: in the result of extractExtraClaims, every top-level extra claim keeps
\* its top-level value whatever the principal object holds (falsy values
\* included), the principal's email field is never copied, and every other
\* non-reserved principal field is copied when no top-level extra claim has
\* its name.
C10_Precedence ==
  xDone =>
    LET top == C10_TopLevel(rev, xClaims)
        inner == IF "principal" \in DOMAIN xClaims /\ xClaims["principal"].type = "object"
                 THEN DOMAIN xClaims["principal"].fields \ reservedClaimNames(rev)
                 ELSE {}
        result == IF xResult = null THEN emptyObject ELSE xResult
    IN /\ \A k \in top : k \in DOMAIN result /\ result[k] = xClaims[k]
       /\ "email" \notin top => "email" \notin DOMAIN result
       /\ \A k \in inner \ (top \cup {"email"}) :
            k \in DOMAIN result /\ result[k] = xClaims["principal"].fields[k]
       /\ DOMAIN result \subseteq top \cup (inner \ {"email"})

\* C11: two calls of verify with the same arguments, to which the
\* collaborators give the same answers (the same verdict on every attribute
\* certificate, the same answers to the trust-resolution lookups), deliver
\* the same outcome to the callback, in whatever order the attribute-certificate
\* branches of either call complete.
C11_SameOutcome ==
  (/\ earlier # <<>>
   /\ Quiescent
   /\ branch = earlier[1].branch
   /\ answersOf(trustLog) = earlier[1].answers)
    => calls = earlier[1].calls

\* C12: a call of verify without args.assertion or args.audience (missing or
\* empty), or with another number of arguments than three, throws at once:
\* nothing is unpacked, no lookup and no signature check is started, and the
\* callback is never invoked; and verify throws on no other call.
C12_ThrowsBeforeAnyWork ==
  /\ (\/ argc # 3
      \/ "assertion" \notin DOMAIN args \/ args["assertion"] = ""
      \/ "audience" \notin DOMAIN args \/ args["audience"] = "")
       => /\ pc \in {"start", "thrown"}
          /\ calls = <<>>
          /\ idpClaims = null /\ userClaims = null /\ principalDomain = noDomain
          /\ chainPos = 0 /\ ~ lookupPending /\ ultimateIssuer = undefined
          /\ assertionParams = null /\ obj = null /\ branch = <<>>
          /\ nVerifyIssuer = 0 /\ nTrustLookups = 0 /\ trustPending = 0
  /\ pc = "thrown"
       => (\/ argc # 3
           \/ "assertion" \notin DOMAIN args \/ args["assertion"] = ""
           \/ "audience" \notin DOMAIN args \/ args["audience"] = "")

\* verify threw on a call of three arguments whose args has an assertion
\* but no audience
C12_Witness ==
  /\ pc = "thrown"
  /\ argc = 3
  /\ "assertion" \in DOMAIN args
  /\ "audience" \notin DOMAIN args

\* C13: when a step of the extraction block throws (unbundle, or
\* extractComponents of the leaf certificate or of the signed assertion), the
\* principal domain stays unset and verification goes on: once verifyBundle
\* has reported success for a chain of one certificate with a matching
\* audience, the callback is invoked exactly once, with the result when the
\* issuer is explicitly trusted and with the no-email error otherwise.
C13_ExtractionFailureTolerated ==
  (bundle.malformed # "none" /\ pc \notin {"start", "thrown"}) =>
    /\ principalDomain = noDomain
    /\ (/\ assertionParams # null
        /\ ~ chainTooLong(bundle.certs)
        /\ assertionParams.audience = args["audience"]) =>
          /\ pc = "resolving"
          /\ Len(calls) = 1
          /\ TrustedByCaller(ultimateIssuer) =>
                /\ calls[1].err = noError
                /\ calls[1].res["issuer"] = ultimateIssuer
          /\ ~ TrustedByCaller(ultimateIssuer) =>
                calls[1] = [err |-> errNoEmail, res |-> null]

\* the attribute certificates of the assertion that were accepted
C14_Accepted == {j \in DOMAIN branch : branch[j] = "accepted"}

\* C14: a rejected attribute certificate contributes no claims and leaves the
\* outcome as it would be without it (revision 2, whose lines the claim cites).
\* Stated for the assertions of which exactly one certificate is accepted and
\* every other one rejected, so that no scope can collide: without the
\* rejected ones the array holds the accepted certificate alone, and the
\* outcome is one invocation of verifyIssuer and of the callback, whose
\* result, if any, carries the claims of the accepted certificate and none of
\* a rejected one.
C14_RejectedAsIfAbsent ==
  (/\ rev = 2
   /\ Quiescent
   /\ CarriesArray
   /\ Cardinality(C14_Accepted) = 1
   /\ Len(branch) > 1) =>
     /\ nVerifyIssuer = 1
     /\ Len(calls) = 1
     /\ \A c \in ResultCalls, j \in DOMAIN branch :
          \A k \in C6_ClaimNames(attrCerts[j]) :
            C6_Appears(calls[c].res, k, attrCerts[j].payload[k]) <=> j \in C14_Accepted

\* C15: a failed issuer lookup or a failed signature/validity check of the
\* chain is terminal: the callback has received exactly that error, once, and
\* the run takes no further step: no retry, no further lookup, no attribute
\* certificate is verified and no trust resolution is made.
C15_ChainFailureTerminal ==
  /\ pc = "stalled" => calls = <<[err |-> errLookup, res |-> null]>>
  /\ (pc = "rejected" /\ assertionParams = null) =>
       calls = <<[err |-> errSignature, res |-> null]>>
  /\ (\E i \in DOMAIN calls : calls[i].err \in {errLookup, errSignature}) =>
       /\ Len(calls) = 1
       /\ pc \in {"stalled", "rejected"}
       /\ assertionParams = null /\ obj = null
       /\ ~ lookupPending
       /\ branch = <<>>
       /\ nVerifyIssuer = 0 /\ nTrustLookups = 0 /\ trustPending = 0
       /\ ~ ENABLED Next

\* the lookup of the issuer of the second link of a chain failed, after the
\* first link was looked up
C15_Witness ==
  /\ pc = "stalled"
  /\ Len(bundle.certs) = 2
  /\ chainPos = 1
  /\ calls = <<[err |-> errLookup, res |-> null]>>

\* C16: if the audience of the assertion does not match args.audience, no
\* attribute certificate is verified, verifyIssuer is not invoked, no
\* trust-resolution lookup is made and no result is delivered; and once the
\* audience check is reached (verifyBundle reported success for a chain of
\* one certificate) the callback has been invoked exactly once, with the
\* 'audience mismatch: ' error that wraps the diagnostic of the matcher.
C16_AudienceMismatch ==
  (/\ pc \notin {"start", "thrown"}
   /\ bundle.signedAssertion.payload["aud"] # args["audience"]) =>
     LET diagnostic == compareAudiences(bundle.signedAssertion.payload["aud"],
                                        args["audience"])
     IN /\ diagnostic \notin {undefined, ""}
        /\ ResultCalls = {}
        /\ branch = <<>> /\ obj = null
        /\ nVerifyIssuer = 0 /\ nTrustLookups = 0 /\ trustPending = 0
        /\ (assertionParams # null /\ Len(bundle.certs) = 1) =>
             /\ pc = "rejected"
             /\ calls = <<[err |-> <<"audience mismatch: ", diagnostic>>,
                           res |-> null]>>

\* an assertion for another audience, carrying an attribute certificate and
\* issued by an issuer the caller trusts, was rejected at the audience check
C16_Witness ==
  /\ pc = "rejected"
  /\ assertionParams # null
  /\ assertionParams.audience = OtherAudience
  /\ Len(bundle.certs) = 1
  /\ CarriesArray
  /\ TrustedByCaller(ultimateIssuer)
  /\ Len(calls) = 1
  /\ calls[1].err[1] = "audience mismatch: "

\* an attribute certificate without a (non-empty) scope, or with an iss that
\* is not the issuer of the primary certificate
C17_Unscoped(t) == "scope" \notin DOMAIN t.payload \/ t.payload["scope"] = ""
C17_ForeignIssuer(t, issuer) ==
  "iss" \in DOMAIN t.payload /\ t.payload["iss"] # "" /\ t.payload["iss"] # issuer

\* C17: no claim of an attribute certificate that has no non-empty scope, or
\* whose iss differs from the issuer of the primary certificate, appears in a
\* delivered result, whether or not its signature is valid, in either revision.
C17_ScopeAndIssuerRequired ==
  CarriesArray =>
    \A i \in ResultCalls, j \in DOMAIN attrCerts :
      (C17_Unscoped(attrCerts[j]) \/ C17_ForeignIssuer(attrCerts[j], ultimateIssuer)) =>
        \A k \in C6_ClaimNames(attrCerts[j]) :
          ~ C6_Appears(calls[i].res, k, attrCerts[j].payload[k])

\* C18: in aggregated mode, at every moment of the run, every claim name n
\* of idpClaims._claim_names maps to a scope s that is a key of
\* idpClaims._claim_sources, _claim_sources[s] holds the raw token of an
\* accepted attribute certificate with scope s, and that certificate asserts
\* n with the value idpClaims[n].
C18_ProvenanceConsistent ==
  (/\ rev = 2
   /\ pc = "resolving"
   /\ "aggregateAttrCertClaims" \in DOMAIN args
   /\ CarriesArray) =>
     LET idp == objectAt(obj, "idpClaims")
         names == objectAt(idp, "_claim_names")
         sources == objectAt(idp, "_claim_sources")
     IN \A n \in DOMAIN names :
          /\ names[n] \in DOMAIN sources
          /\ \E j \in DOMAIN attrCerts :
               /\ branch[j] = "accepted"
               /\ attrCerts[j].raw = sources[names[n]].JWT
               /\ attrCerts[j].payload["scope"] = names[n]
               /\ n \in DOMAIN attrCerts[j].payload
               /\ idp[n] = attrCerts[j].payload[n]

\* a map of extra claims as a result may carry it: not empty, and without a
\* reserved claim name of revision r
C19_ExtraClaims(r, m) == DOMAIN m # {} /\ DOMAIN m \cap reservedClaimNames(r) = {}

\* C19: in every delivered result idpClaims and userClaims, when present, are
\* not empty and have no reserved claim name of the running revision as a
\* key, and neither has any per-scope entry of attributeCertClaims (nor any
\* entry of the list attrCertClaims of revision 1).
C19_NoReservedNoEmpty ==
  \A i \in ResultCalls :
    LET res == calls[i].res
    IN /\ "idpClaims" \in DOMAIN res => C19_ExtraClaims(rev, res["idpClaims"])
       /\ "userClaims" \in DOMAIN res => C19_ExtraClaims(rev, res["userClaims"])
       /\ "attributeCertClaims" \in DOMAIN res =>
            \A sc \in DOMAIN res["attributeCertClaims"] :
              C19_ExtraClaims(rev, res["attributeCertClaims"][sc])
       /\ "attrCertClaims" \in DOMAIN res =>
            \A j \in DOMAIN res["attrCertClaims"] :
              C19_ExtraClaims(rev, res["attrCertClaims"][j])

\* C20: every run of verify that passes the argument checks on a well-formed
\* bundle, and whose collaborators all answer, eventually invokes the
\* caller's callback, whatever the number of attribute certificates, the empty
\* array included.
C20_EventuallyCalledBack ==
  (pc = "chain" /\ bundle.malformed = "none") ~> (calls # <<>>)

\* the errors the callback received, in order (no error for a result)
C21_Verdicts(cs) == [i \in DOMAIN cs |-> cs[i].err]

\* C21: two calls of verify on the same assertion, one with aggregated and
\* one with per-scope storage, to which the collaborators give the same
\* answers in the same order, invoke the callback as often, with a result at
\* the same invocations and with the same errors at the others.
C21_ModeIndependent ==
  (/\ earlier # <<>>
   /\ Quiescent
   /\ branch = earlier[1].branch
   /\ completed = earlier[1].completed
   /\ answersOf(trustLog) = earlier[1].answers)
    => C21_Verdicts(calls) = C21_Verdicts(earlier[1].calls)

====
